---------------------------- MODULE Spec2Model ----------------------------
(*************************************************************************)
(* A model of generate_font_coverage.py: the Unicode block table and     *)
(* its stateful classifier, the codepoint merger and filter, the         *)
(* wide-block detector, the spacing calculator and the layout renderer.  *)
(*                                                                       *)
(* Conventions.  Python's None is the string None for names and modes    *)
(* and NoLine for line addresses.  A metrics record is the tuple         *)
(* <<advance, lsb, xmax>>, so codepoints[cp][1] is Python's              *)
(* codepoints[cp][0].  Block indices are 0-based as in the source;       *)
(* UNICODE_BLOCKS[idx + 1] is Python's UNICODE_BLOCKS[idx].  Standard    *)
(* output is the sequence of write() calls, one token per call.          *)
(*************************************************************************)
EXTENDS Integers, Sequences, FiniteSets, TLC

VARIABLES
    fonts,                  \* main: the loaded weights, in priority order
    combining_base,         \* args.combining_base, as a codepoint
    show_gaps,              \* args.show_gaps
    show_position_headers,  \* args.show_position_headers
    pc,                     \* position of the run
    err,                    \* the exception that ended the run, or None
    merged_codepoints,      \* extract_and_merge_codepoints' result
    codepoints,             \* the merged metrics table (cp -> metrics)
    lookups,                \* the get_metrics(font, cp) calls made, <<weight, cp>>
    stderr,                 \* the advisories written by eprintf, as a set
                            \* (its progress and summary lines are left out)
    stdout,                 \* what write() has written, one token per call
    wide_blocks,            \* calc_wide_blocks' result
    last_idx,               \* the block finder's remembered index
    lines,                  \* gen_coverage_section: the sorted lines still to visit
    last_line,              \* gen_coverage_section: last emitted line address
    last_printed_block,     \* gen_coverage_section: last block header printed
    last_width_mode,        \* gen_coverage_section: last printed width mode
    cp_arg,                 \* argument of the last direct call
    is_wide_arg,            \* argument of the last direct write_codepoint call
    ret_name                \* result of the last direct find_block_name call

vars == <<fonts, combining_base, show_gaps, show_position_headers, pc, err,
          merged_codepoints, codepoints, lookups, stderr, stdout, wide_blocks,
          last_idx, lines, last_line, last_printed_block, last_width_mode,
          cp_arg, is_wide_arg, ret_name>>

None == "None"
NoLine == -1

-----------------------------------------------------------------------------
(* The block table.                                                      *)

UNICODE_BLOCKS == <<
    <<0, 127, "Basic Latin">>,  \* 0x0000..0x007F
    <<128, 255, "Latin-1 Supplement">>,  \* 0x0080..0x00FF
    <<256, 383, "Latin Extended-A">>,  \* 0x0100..0x017F
    <<384, 591, "Latin Extended-B">>,  \* 0x0180..0x024F
    <<592, 687, "IPA Extensions">>,  \* 0x0250..0x02AF
    <<688, 767, "Spacing Modifier Letters">>,  \* 0x02B0..0x02FF
    <<768, 879, "Combining Diacritical Marks">>,  \* 0x0300..0x036F
    <<880, 1023, "Greek and Coptic">>,  \* 0x0370..0x03FF
    <<1024, 1279, "Cyrillic">>,  \* 0x0400..0x04FF
    <<1280, 1327, "Cyrillic Supplement">>,  \* 0x0500..0x052F
    <<1328, 1423, "Armenian">>,  \* 0x0530..0x058F
    <<1424, 1535, "Hebrew">>,  \* 0x0590..0x05FF
    <<1536, 1791, "Arabic">>,  \* 0x0600..0x06FF
    <<1792, 1871, "Syriac">>,  \* 0x0700..0x074F
    <<1872, 1919, "Arabic Supplement">>,  \* 0x0750..0x077F
    <<1920, 1983, "Thaana">>,  \* 0x0780..0x07BF
    <<2304, 2431, "Devanagari">>,  \* 0x0900..0x097F
    <<2432, 2559, "Bengali">>,  \* 0x0980..0x09FF
    <<5760, 5791, "Ogham">>,  \* 0x1680..0x169F
    <<5792, 5887, "Runic">>,  \* 0x16A0..0x16FF
    <<5888, 5919, "Tagalog">>,  \* 0x1700..0x171F
    <<6832, 6911, "Combining Diacritical Marks Extended">>,  \* 0x1AB0..0x1AFF
    <<6912, 7039, "Balinese">>,  \* 0x1B00..0x1B7F
    <<7424, 7551, "Phonetic Extensions">>,  \* 0x1D00..0x1D7F
    <<7552, 7615, "Phonetic Extensions Supplement">>,  \* 0x1D80..0x1DBF
    <<7616, 7679, "Combining Diacritical Marks Supplement">>,  \* 0x1DC0..0x1DFF
    <<7680, 7935, "Latin Extended Additional">>,  \* 0x1E00..0x1EFF
    <<7936, 8191, "Greek Extended">>,  \* 0x1F00..0x1FFF
    <<8192, 8303, "General Punctuation">>,  \* 0x2000..0x206F
    <<8304, 8351, "Superscripts and Subscripts">>,  \* 0x2070..0x209F
    <<8352, 8399, "Currency Symbols">>,  \* 0x20A0..0x20CF
    <<8400, 8447, "Combining Diacritical Marks for Symbols">>,  \* 0x20D0..0x20FF
    <<8448, 8527, "Letterlike Symbols">>,  \* 0x2100..0x214F
    <<8528, 8591, "Number Forms">>,  \* 0x2150..0x218F
    <<8592, 8703, "Arrows">>,  \* 0x2190..0x21FF
    <<8704, 8959, "Mathematical Operators">>,  \* 0x2200..0x22FF
    <<8960, 9215, "Miscellaneous Technical">>,  \* 0x2300..0x23FF
    <<9216, 9279, "Control Pictures">>,  \* 0x2400..0x243F
    <<9280, 9311, "Optical Character Recognition">>,  \* 0x2440..0x245F
    <<9312, 9471, "Enclosed Alphanumerics">>,  \* 0x2460..0x24FF
    <<9472, 9599, "Box Drawing">>,  \* 0x2500..0x257F
    <<9600, 9631, "Block Elements">>,  \* 0x2580..0x259F
    <<9632, 9727, "Geometric Shapes">>,  \* 0x25A0..0x25FF
    <<9728, 9983, "Miscellaneous Symbols">>,  \* 0x2600..0x26FF
    <<9984, 10175, "Dingbats">>,  \* 0x2700..0x27BF
    <<10176, 10223, "Miscellaneous Mathematical Symbols-A">>,  \* 0x27C0..0x27EF
    <<10224, 10239, "Supplemental Arrows-A">>,  \* 0x27F0..0x27FF
    <<10240, 10495, "Braille Patterns">>,  \* 0x2800..0x28FF
    <<10496, 10623, "Supplemental Arrows-B">>,  \* 0x2900..0x297F
    <<10624, 10751, "Miscellaneous Mathematical Symbols-B">>,  \* 0x2980..0x29FF
    <<10752, 11007, "Supplemental Mathematical Operators">>,  \* 0x2A00..0x2AFF
    <<11008, 11263, "Miscellaneous Symbols and Arrows">>,  \* 0x2B00..0x2BFF
    <<11264, 11359, "Glagolitic">>,  \* 0x2C00..0x2C5F
    <<11360, 11391, "Latin Extended-C">>,  \* 0x2C60..0x2C7F
    <<11392, 11519, "Coptic">>,  \* 0x2C80..0x2CFF
    <<11520, 11567, "Georgian Supplement">>,  \* 0x2D00..0x2D2F
    <<11568, 11647, "Tifinagh">>,  \* 0x2D30..0x2D7F
    <<11648, 11743, "Ethiopic Extended">>,  \* 0x2D80..0x2DDF
    <<11744, 11775, "Cyrillic Extended-A">>,  \* 0x2DE0..0x2DFF
    <<11776, 11903, "Supplemental Punctuation">>,  \* 0x2E00..0x2E7F
    <<57344, 57354, "Nerd Fonts - Pomicons">>,  \* 0xE000..0xE00A
    <<57355, 57503, "Private Use Area">>,  \* 0xE00B..0xE09F
    <<57504, 57507, "Nerd Fonts - Powerline">>,  \* 0xE0A0..0xE0A3
    <<57508, 57519, "Private Use Area">>,  \* 0xE0A4..0xE0AF
    <<57520, 57559, "Nerd Fonts - Powerline">>,  \* 0xE0B0..0xE0D7
    <<57856, 58025, "Nerd Fonts - Font Awesome Extension">>,  \* 0xE200..0xE2A9
    <<58026, 58111, "Private Use Area">>,  \* 0xE2AA..0xE2FF
    <<58112, 58339, "Nerd Fonts - Weather Icons">>,  \* 0xE300..0xE3E3
    <<58874, 59064, "Nerd Fonts - Seti-UI + Custom">>,  \* 0xE5FA..0xE6B8
    <<59136, 59631, "Nerd Fonts - Devicons">>,  \* 0xE700..0xE8EF
    <<60000, 60446, "Nerd Fonts - Codicons">>,  \* 0xEA60..0xEC1E
    <<60672, 60927, "Nerd Fonts - Font Awesome">>,  \* 0xED00..0xEDFF
    <<60928, 60939, "Nerd Fonts - Progress Indicators">>,  \* 0xEE00..0xEE0B
    <<60940, 62207, "Nerd Fonts - Font Awesome">>,  \* 0xEE0C..0xF2FF
    <<62208, 62337, "Nerd Fonts - Font Logos">>,  \* 0xF300..0xF381
    <<62464, 62771, "Nerd Fonts - Octicons">>,  \* 0xF400..0xF533
    <<62720, 63487, "Nerd Fonts - Material Design">>,  \* 0xF500..0xF7FF
    <<63488, 63727, "Private Use Area">>,  \* 0xF800..0xF8EF
    <<63728, 64223, "Nerd Fonts - Material Design (v2 range)">>,  \* 0xF8F0..0xFADF
    <<64256, 64335, "Alphabetic Presentation Forms">>,  \* 0xFB00..0xFB4F
    <<64336, 65023, "Arabic Presentation Forms-A">>,  \* 0xFB50..0xFDFF
    <<65024, 65039, "Variation Selectors">>,  \* 0xFE00..0xFE0F
    <<65040, 65055, "Vertical Forms">>,  \* 0xFE10..0xFE1F
    <<65056, 65071, "Combining Half Marks">>,  \* 0xFE20..0xFE2F
    <<65072, 65103, "CJK Compatibility Forms">>,  \* 0xFE30..0xFE4F
    <<65104, 65135, "Small Form Variants">>,  \* 0xFE50..0xFE6F
    <<65136, 65279, "Arabic Presentation Forms-B">>,  \* 0xFE70..0xFEFF
    <<65280, 65519, "Halfwidth and Fullwidth Forms">>,  \* 0xFF00..0xFFEF
    <<65520, 65535, "Specials">>,  \* 0xFFF0..0xFFFF
    <<65536, 65663, "Linear B Syllabary">>,  \* 0x10000..0x1007F
    <<65664, 65791, "Linear B Ideograms">>,  \* 0x10080..0x100FF
    <<65792, 65855, "Aegean Numbers">>,  \* 0x10100..0x1013F
    <<65856, 65935, "Ancient Greek Numbers">>,  \* 0x10140..0x1018F
    <<65936, 65999, "Ancient Symbols">>,  \* 0x10190..0x101CF
    <<66000, 66047, "Phaistos Disc">>,  \* 0x101D0..0x101FF
    <<66176, 66207, "Lycian">>,  \* 0x10280..0x1029F
    <<66208, 66271, "Carian">>,  \* 0x102A0..0x102DF
    <<66304, 66351, "Old Italic">>,  \* 0x10300..0x1032F
    <<66352, 66383, "Gothic">>,  \* 0x10330..0x1034F
    <<66432, 66463, "Ugaritic">>,  \* 0x10380..0x1039F
    <<66464, 66527, "Old Persian">>,  \* 0x103A0..0x103DF
    <<66560, 66639, "Deseret">>,  \* 0x10400..0x1044F
    <<66640, 66687, "Shavian">>,  \* 0x10450..0x1047F
    <<66688, 66735, "Osmanya">>,  \* 0x10480..0x104AF
    <<67584, 67647, "Cypriot Syllabary">>,  \* 0x10800..0x1083F
    <<119808, 120831, "Mathematical Alphanumeric Symbols">>,  \* 0x1D400..0x1D7FF
    <<126976, 127023, "Mahjong Tiles">>,  \* 0x1F000..0x1F02F
    <<127024, 127135, "Domino Tiles">>,  \* 0x1F030..0x1F09F
    <<127136, 127231, "Playing Cards">>,  \* 0x1F0A0..0x1F0FF
    <<127232, 127487, "Enclosed Alphanumeric Supplement">>,  \* 0x1F100..0x1F1FF
    <<127488, 127743, "Enclosed Ideographic Supplement">>,  \* 0x1F200..0x1F2FF
    <<127744, 128511, "Miscellaneous Symbols and Pictographs">>,  \* 0x1F300..0x1F5FF
    <<128512, 128591, "Emoticons">>,  \* 0x1F600..0x1F64F
    <<128592, 128639, "Ornamental Dingbats">>,  \* 0x1F650..0x1F67F
    <<128640, 128767, "Transport and Map Symbols">>,  \* 0x1F680..0x1F6FF
    <<128768, 128895, "Alchemical Symbols">>,  \* 0x1F700..0x1F77F
    <<128896, 129023, "Geometric Shapes Extended">>,  \* 0x1F780..0x1F7FF
    <<129024, 129279, "Supplemental Arrows-C">>,  \* 0x1F800..0x1F8FF
    <<129280, 129535, "Supplemental Symbols and Pictographs">>,  \* 0x1F900..0x1F9FF
    <<129536, 129647, "Chess Symbols">>,  \* 0x1FA00..0x1FA6F
    <<129648, 129791, "Symbols and Pictographs Extended-A">>,  \* 0x1FA70..0x1FAFF
    <<129792, 130047, "Symbols for Legacy Computing">>,  \* 0x1FB00..0x1FBFF
    <<983040, 989936, "Nerd Fonts - Material Design">>,  \* 0xF0000..0xF1AF0
    <<989937, 1048575, "Private Use Area">>,  \* 0xF1AF1..0xFFFFF
    <<1048576, 1114111, "Supplementary Private Use Area-B">>  \* 0x100000..0x10FFFF
>>

NumBlocks == Len(UNICODE_BLOCKS)

InBlock(idx, cp) ==
    UNICODE_BLOCKS[idx + 1][1] <= cp /\ cp <= UNICODE_BLOCKS[idx + 1][2]

-----------------------------------------------------------------------------
(* The codepoints the model draws its inputs from.                       *)

\* The weights of a run of main hold a filtered codepoint (U+0020 by
\* category, or U+2065 by range), a combining mark (U+0300) and U+25CC.
MergeUniverses == {{32, 768, 9676}, {8293, 768, 9676}}

\* Rendered tables: U+0041, U+0042 and U+0051 (Basic Latin, two adjacent
\* lines, enough glyphs to make the block wide), U+0300, U+25CC, U+0800 (in
\* no block), U+E0D7 and U+E0D8 (a block's last codepoint and the first
\* after it) and U+E00A and U+E00B (two blocks meeting inside one line).
RenderUniverse ==
    {65, 66, 81, 768, 9676, 2048, 57559, 57560, 57354, 57355}

\* Column separators: U+0041 and U+0042, and U+004E and U+004F, the last
\* two columns of the same line of Basic Latin.
ColumnUniverse == {65, 66, 78, 79}

\* Repeated renders: U+0041, U+F510 (in both Nerd Fonts - Octicons and
\* Nerd Fonts - Material Design) and U+F618 (in Material Design only).
RepeatUniverse == {65, 62736, 63000}

\* Wide-block detection: U+1F94..96 and U+1F98 (Greek Extended) and
\* U+100104, U+100108, U+100109 (Supplementary Private Use Area-B).
WideUniverse == {8084, 8085, 8086, 8088, 1048836, 1048840, 1048841}

\* Direct calls of the writer: a letter, marks of the categories Mn, Mc and
\* Me, and U+1F96, U+1F97.
SpacingCps == {65, 768, 2307, 8413, 8086, 8087}

\* The codepoints the block finder is called with directly: every block's
\* first codepoint, and codepoints inside and outside the listed ranges.
ProbeCps ==
    {UNICODE_BLOCKS[i][1] : i \in 1..NumBlocks}
        \cup {2048, 12354, 57560, 62736, 62771, 63000}

\* The 16 codepoints of the line of each codepoint of U.
LineCps(U) == UNION {{(cp \div 16) * 16 + i : i \in 0..15} : cp \in U}

\* For every codepoint the finder can be asked about, the indices of the
\* table rows whose range holds it.
BlockHolders ==
    [cp \in ProbeCps \cup LineCps(UNION MergeUniverses \cup RenderUniverse
                                      \cup WideUniverse \cup SpacingCps
                                      \cup ColumnUniverse
                                      \cup RepeatUniverse) |->
        {idx \in 0..(NumBlocks - 1) : InBlock(idx, cp)}] @@ <<>>

-----------------------------------------------------------------------------
(* The block classifier.                                                 *)

\* find_block_name called with the remembered index `last`: the block at
\* the first offset from it (wrapping) that holds cp; a hit moves the index,
\* a miss returns None and leaves it.  Offset 0 is tried first, as in the
\* loop; the later offsets are read from BlockHolders.
find_block_name(last, cp) ==
    IF InBlock(last, cp)
    THEN [last_idx |-> last, name |-> UNICODE_BLOCKS[last + 1][3]]
    ELSE LET hits == BlockHolders[cp]
         IN  IF hits = {}
             THEN [last_idx |-> last, name |-> None]
             ELSE LET idx == CHOOSE i \in hits : \A h \in hits :
                                 (i - last) % NumBlocks <= (h - last) % NumBlocks
                  IN  [last_idx |-> idx, name |-> UNICODE_BLOCKS[idx + 1][3]]

-----------------------------------------------------------------------------
(* Unicode general categories and the filter.                            *)

\* unicodedata.category(chr(cp)) for the codepoints the model draws from.
Category(cp) ==
    CASE cp = 9 -> "Cc"                          \* U+0009
      [] cp = 32 -> "Zs"                         \* U+0020
      [] cp \in {65, 66, 67, 78, 79, 81} -> "Lu" \* U+0041.., U+004E.., U+0051
      [] cp = 173 -> "Cf"                        \* U+00AD
      [] cp = 768 -> "Mn"                        \* U+0300
      [] cp = 2048 -> "Lo"                       \* U+0800
      [] cp = 2307 -> "Mc"                       \* U+0903
      [] cp \in {8084, 8085, 8086, 8087} -> "Ll" \* U+1F94..U+1F97
      [] cp = 8088 -> "Lt"                       \* U+1F98
      [] cp = 8288 -> "Cf"                       \* U+2060
      [] cp = 8293 -> "Cn"                       \* U+2065
      [] cp = 8413 -> "Me"                       \* U+20DD
      [] cp = 9676 -> "So"                       \* U+25CC
      [] cp \in {57354, 57355, 57559, 57560} -> "Co"           \* U+E00A.., U+E0D7..
      [] cp \in {62736, 63000} -> "Co"           \* U+F510, U+F618
      [] cp \in {1048836, 1048840, 1048841} -> "Co"           \* U+100104..

is_combining(cp) == Category(cp) \in {"Mn", "Mc", "Me"}

\* A faulty variant of is_printable: the range U+2060..U+206F is not excluded.
is_printable_by_category(cp) == ~(Category(cp) \in {"Cc", "Cf", "Zs"})

is_printable(cp) ==
    /\ ~(8288 <= cp /\ cp <= 8303)
    /\ ~(Category(cp) \in {"Cc", "Cf", "Zs"})

-----------------------------------------------------------------------------
(* Arithmetic and write() helpers.                                       *)

Max(a, b) == IF a >= b THEN a ELSE b

\* math.ceil(n / 1024) for an integer n >= 0 (n / 1024 is exact in a float).
CeilCells(n) == (n + 1023) \div 1024

\* len(" " * n): Python repeats a string max(0, n) times.
Repeat(n) == IF n > 0 THEN n ELSE 0

\* One write() call: its kind, an integer payload (a count of spaces, a
\* codepoint or a line address) and a string payload (a name or a mode).
Tok(k, n, s) == [k |-> k, n |-> n, s |-> s]

Mode(is_wide) == IF is_wide THEN "wide" ELSE "narrow"

-----------------------------------------------------------------------------
(* The wide-block detector.                                              *)

RECURSIVE CountWide(_, _, _)
\* The inner loop of calc_wide_blocks over the codepoints in `todo`.
CountWide(table, idx, todo) ==
    IF todo = {}
    THEN 0
    ELSE LET cp == CHOOSE c \in todo : TRUE
             rest == CountWide(table, idx, todo \ {cp})
         IN  IF ~InBlock(idx, cp)
             THEN rest
             ELSE IF (8086 <= cp /\ cp <= 8087) \/ (1048836 <= cp /\ cp <= 1048839)
                  THEN rest
                  ELSE LET advance == table[cp][1]
                           lsb == table[cp][2]
                           xmax == table[cp][3]
                           width == Max(advance, xmax - lsb)
                       IN  IF width >= 1536 THEN rest + 1 ELSE rest

\* A faulty variant of IsWideBlock: two wide glyphs are enough.
IsWideBlockAtTwo(table, idx) == CountWide(table, idx, DOMAIN table) >= 2

IsWideBlock(table, idx) == CountWide(table, idx, DOMAIN table) > 2

\* calc_wide_blocks: the (start, end) of the wide blocks, in table order.
calc_wide_blocks(table) ==
    LET wide == SelectSeq([i \in 1..NumBlocks |-> i - 1],
                          LAMBDA idx : IsWideBlock(table, idx))
    IN  [j \in 1..Len(wide) |->
            <<UNICODE_BLOCKS[wide[j] + 1][1], UNICODE_BLOCKS[wide[j] + 1][2]>>]

\* range(start, end) excludes end.
in_wide_block(wide, start, end) ==
    \E cp \in start..(end - 1) :
        \E i \in 1..Len(wide) : wide[i][1] <= cp /\ cp <= wide[i][2]

-----------------------------------------------------------------------------
(* The spacing calculator and the per-codepoint writer.                  *)

\* A faulty variant of calc_prefix_spaces: the dead zone excludes -512.
calc_prefix_spaces_inclusive(table, cp) ==
    LET lsb == table[cp][2]
    IN  IF lsb <= -512 THEN CeilCells(-lsb) ELSE 0

calc_prefix_spaces(table, cp) ==
    LET lsb == table[cp][2]
    IN  IF lsb < -512 THEN CeilCells(-lsb) ELSE 0

\* codepoints[ord(combining_base)] raises KeyError when the base has no record.
SuffixRaises(base, table, cp) == is_combining(cp) /\ base \notin DOMAIN table

\* A faulty variant of calc_suffix_spaces: the expected width ignores the
\* width mode.
calc_suffix_spaces_narrow(base, table, is_wide, cp, prefix_spaces) ==
    LET own == table[cp][1]
        advance == IF is_combining(cp) THEN Max(own, table[base][1]) ELSE own
        shortfall == Max(0, 1024 - advance)
    IN  CeilCells(shortfall) - prefix_spaces

calc_suffix_spaces(base, table, is_wide, cp, prefix_spaces) ==
    LET own == table[cp][1]
        advance == IF is_combining(cp) THEN Max(own, table[base][1]) ELSE own
        expected_width == IF is_wide THEN 2048 ELSE 1024
        shortfall == Max(0, expected_width - advance)
        nspaces == CeilCells(shortfall)
    IN  nspaces - prefix_spaces

\* write_codepoint: the tokens written, and whether it returned (ok) or
\* raised KeyError after writing the character.
write_codepoint(base, table, is_wide, cp) ==
    LET prefix_spaces ==
            IF is_combining(cp) \/ cp = 8086 \/ cp = 8087
            THEN 0
            ELSE calc_prefix_spaces(table, cp)
        before ==
            IF is_combining(cp)
            THEN <<Tok("base", base, "")>>
            ELSE IF cp = 8086 \/ cp = 8087
                 THEN <<>>
                 ELSE <<Tok("prefix", Repeat(prefix_spaces), "")>>
        char == <<Tok("char", cp, "")>>
    IN  IF SuffixRaises(base, table, cp)
        THEN [out |-> before \o char, ok |-> FALSE]
        ELSE [out |-> before \o char \o
                      <<Tok("suffix",
                            Repeat(calc_suffix_spaces(base, table, is_wide, cp,
                                                      prefix_spaces)), "")>>,
              ok |-> TRUE]

-----------------------------------------------------------------------------
(* The layout renderer: one 16-wide line.                                *)

\* append(start, end, name) of gen_coverage_section: a segment is kept only
\* if one of its offsets holds a codepoint of the table.
AppendSegment(segments, table, line, start, end, name) ==
    IF \E i \in start..(end - 1) : (line + i) \in DOMAIN table
    THEN Append(segments, [start |-> start, end |-> end, name |-> name])
    ELSE segments

RECURSIVE ScanLine(_, _, _, _, _, _, _)
\* One offset of the loop below, `found` being the block finder's answer for
\* it: a change of block name closes the current segment and opens another.
ScanOffset(found, table, line, offset, current_segment_start, current_block_name, segments) ==
    IF found.name # current_block_name
    THEN ScanLine(found.last_idx, table, line, offset + 1, offset, found.name,
                  IF current_block_name # None
                  THEN AppendSegment(segments, table, line,
                                     current_segment_start, offset,
                                     current_block_name)
                  ELSE segments)
    ELSE ScanLine(found.last_idx, table, line, offset + 1,
                  current_segment_start, current_block_name, segments)

\* The loop over the 16 offsets of a line, and the closing of the final
\* segment; every offset calls the block finder, which moves its index.
ScanLine(last, table, line, offset, current_segment_start, current_block_name, segments) ==
    IF offset = 16
    THEN [last_idx |-> last,
          segments |-> IF current_block_name # None
                       THEN AppendSegment(segments, table, line,
                                          current_segment_start, 16,
                                          current_block_name)
                       ELSE segments]
    ELSE ScanOffset(find_block_name(last, line + offset), table, line, offset,
                    current_segment_start, current_block_name, segments)

Segments(last, table, line) == ScanLine(last, table, line, 0, 0, None, <<>>)

\* len(f"{line:X}")
RECURSIVE HexLen(_)
HexLen(n) == IF n < 16 THEN 1 ELSE 1 + HexLen(n \div 16)

\* The address label: the prefix literal depends on the number of hex digits.
LabelTok(line) == Tok("label", line, IF HexLen(line) <= 4 THEN " U+" ELSE "U+")

\* A faulty variant of ColumnSeparator: the expected advance of a narrow
\* cell in both modes.
ColumnSeparatorNarrow(table, is_wide, cp) ==
    Repeat(CeilCells(Max(0, 1024 - Max(0, table[cp][1] - 1024))))

\* The inter-column separator after a supported column.
ColumnSeparator(table, is_wide, cp) ==
    LET advance == table[cp][1]
        expected_advance == IF is_wide THEN 2048 ELSE 1024
        overhang == Max(0, advance - expected_advance)
        remaining == Max(0, 1024 - overhang)
    IN  Repeat(CeilCells(remaining))

RECURSIVE WriteColumns(_, _, _, _, _, _, _)
\* The loop over the offsets of one segment from `offset` on, then the
\* newline, appended to `out`; stops at the first codepoint whose writer
\* raises.
WriteColumns(base, table, is_wide, line, offset, seg_end, out) ==
    IF offset >= seg_end
    THEN [out |-> Append(out, Tok("newline", 0, "")), ok |-> TRUE]
    ELSE LET cp == line + offset
         IN  IF cp \in DOMAIN table
             THEN LET w == write_codepoint(base, table, is_wide, cp)
                      sep == IF offset < 15
                             THEN <<Tok("colsep",
                                        ColumnSeparator(table, is_wide, cp), "")>>
                             ELSE <<>>
                  IN  IF ~w.ok
                      THEN [out |-> out \o w.out, ok |-> FALSE]
                      ELSE WriteColumns(base, table, is_wide, line, offset + 1,
                                        seg_end, out \o w.out \o sep)
             ELSE LET gap == <<Tok("missing", IF is_wide THEN 2 ELSE 1, "")>>
                      sep == IF offset < 15 THEN <<Tok("colsep", 1, "")>> ELSE <<>>
                  IN  WriteColumns(base, table, is_wide, line, offset + 1,
                                   seg_end, out \o gap \o sep)

\* A faulty variant of PositionHeader: a header above every row.
PositionHeaderEveryRow(headers, mode, is_wide) ==
    IF headers THEN <<Tok("position_header", 0, Mode(is_wide))>> ELSE <<>>

\* The position header of a segment: written only when the option is on and
\* the width mode changes (None, before the first segment, differs from both).
PositionHeader(headers, mode, is_wide) ==
    IF headers /\ mode # Mode(is_wide)
    THEN <<Tok("position_header", 0, Mode(is_wide))>>
    ELSE <<>>

\* A faulty variant of BlockHeader: a header above every row.
BlockHeaderEveryRow(seg_block, block) ==
    <<Tok("block_header", 0, seg_block)>>

\* The block-name header of a segment: written only when the name is not the
\* last one printed.
BlockHeader(seg_block, block) ==
    IF seg_block # block THEN <<Tok("block_header", 0, seg_block)>> ELSE <<>>

RECURSIVE WriteSegments(_, _, _, _, _, _, _, _, _, _)
\* The loop over the kept segments of a line from the i-th on, appended to
\* `out`, carrying the last printed block name and width mode.
WriteSegments(base, headers, table, wide, line, segments, i, block, mode, out) ==
    IF i > Len(segments)
    THEN [out |-> out, ok |-> TRUE, block |-> block, mode |-> mode]
    ELSE LET seg == segments[i]
             is_wide == in_wide_block(wide, line + seg.start, line + seg.end)
             position == PositionHeader(headers, mode, is_wide)
             header == BlockHeader(seg.name, block)
             pad == <<Tok("pad", Repeat(seg.start * (IF is_wide THEN 3 ELSE 2)), "")>>
             cols == WriteColumns(base, table, is_wide, line, seg.start, seg.end,
                                  out \o position \o header \o <<LabelTok(line)>>
                                      \o pad)
         IN  IF ~cols.ok
             THEN [out |-> cols.out, ok |-> FALSE, block |-> seg.name,
                   mode |-> Mode(is_wide)]
             ELSE WriteSegments(base, headers, table, wide, line, segments,
                                i + 1, seg.name, Mode(is_wide), cols.out)

-----------------------------------------------------------------------------
(* The codepoint merger.                                                 *)

\* A weight is [cmap |-> the codepoints of its character map,
\*              glyf |-> those whose glyph has an outline entry,
\*              hmtx |-> the metrics record of its glyphs].
\* get_metrics returns a record only for a mapped glyph with an outline;
\* otherwise it falls off its loop and returns None (found = FALSE).
get_metrics(font, cp) ==
    IF cp \in font.cmap /\ cp \in font.glyf
    THEN [found |-> TRUE, metrics |-> font.hmtx]
    ELSE [found |-> FALSE, metrics |-> <<0, 0, 0>>]

\* extract_and_merge_codepoints: the union of the weights' codepoint sets.
extract_and_merge_codepoints(weights) ==
    UNION {weights[w].cmap : w \in 1..Len(weights)}

\* A faulty variant of FirstWeight: the loop does not break, so the last
\* weight that resolves cp wins.
LastWeight(weights, cp, w) ==
    LET resolving == {v \in w..Len(weights) : get_metrics(weights[v], cp).found}
    IN  IF resolving = {}
        THEN 0
        ELSE CHOOSE v \in resolving : \A u \in resolving : u <= v

RECURSIVE FirstWeight(_, _, _)
\* The inner loop of build_codepoints_table from weight w on: the weight
\* whose metrics are taken (the loop breaks there), or 0 if none resolves.
FirstWeight(weights, cp, w) ==
    IF w > Len(weights)
    THEN 0
    ELSE IF get_metrics(weights[w], cp).found
         THEN w
         ELSE FirstWeight(weights, cp, w + 1)

\* build_codepoints_table: the table, the advisories and the metrics
\* lookups made.  The iteration order of the merged set only orders the
\* advisories, which are kept as a set.
build_codepoints_table(weights, merged) ==
    LET printable == {cp \in merged : is_printable(cp)}
        taken(cp) == FirstWeight(weights, cp, 1)
        kept == {cp \in printable : taken(cp) # 0}
    IN  [codepoints |-> [cp \in kept |-> get_metrics(weights[taken(cp)], cp).metrics],
         stderr |-> {[k |-> "found_in", cp |-> cp, w |-> taken(cp)] :
                        cp \in {c \in kept : taken(c) # 1}}
                    \cup {[k |-> "no_metrics", cp |-> cp, w |-> 0] :
                        cp \in printable \ kept},
         lookups |-> {<<w, cp>> : w \in 1..Len(weights), cp \in printable}
                     \ {<<w, cp>> \in (1..Len(weights)) \X kept : w > taken(cp)}]

-----------------------------------------------------------------------------
(* The run: main, gen_coverage_file and gen_coverage_section.            *)

RECURSIVE SortedSeq(_)
SortedSeq(S) ==
    IF S = {}
    THEN <<>>
    ELSE LET m == CHOOSE x \in S : \A y \in S : x <= y
         IN  <<m>> \o SortedSeq(S \ {m})

\* sorted(lines_with_codepoints.items()): the line addresses, ascending.
LinesOf(table) == SortedSeq({(cp \div 16) * 16 : cp \in DOMAIN table})

EmptyTable == [cp \in {} |-> <<0, 0, 0>>]

\* main up to the merge: next(iter(fonts)) raises on an empty weight list.
ExtractAndMerge ==
    /\ pc = "main"
    /\ IF Len(fonts) = 0
       THEN /\ pc' = "error"
            /\ err' = "StopIteration"
            /\ UNCHANGED merged_codepoints
       ELSE /\ merged_codepoints' = extract_and_merge_codepoints(fonts)
            /\ pc' = "check"
            /\ UNCHANGED err
    /\ UNCHANGED <<fonts, combining_base, show_gaps, show_position_headers,
                   codepoints, lookups, stderr, stdout, wide_blocks, last_idx,
                   lines, last_line, last_printed_block, last_width_mode,
                   cp_arg, is_wide_arg, ret_name>>

\* A faulty variant of BasePresent: the check is skipped.
BaseUnchecked(base, merged) == TRUE

BasePresent(base, merged) == base \in merged

\* main: the combining base must be in the merged codepoint set.
CheckCombiningBase ==
    /\ pc = "check"
    /\ IF BasePresent(combining_base, merged_codepoints)
       THEN /\ pc' = "build"
            /\ UNCHANGED <<err, stderr>>
       ELSE /\ stderr' = stderr \cup {[k |-> "no_base", cp |-> combining_base, w |-> 0]}
            /\ pc' = "error"
            /\ err' = "SystemExit"
    /\ UNCHANGED <<fonts, combining_base, show_gaps, show_position_headers,
                   merged_codepoints, codepoints, lookups, stdout, wide_blocks,
                   last_idx, lines, last_line, last_printed_block,
                   last_width_mode, cp_arg, is_wide_arg, ret_name>>

BuildTable ==
    /\ pc = "build"
    /\ LET built == build_codepoints_table(fonts, merged_codepoints)
       IN  /\ codepoints' = built.codepoints
           /\ stderr' = stderr \cup built.stderr
           /\ lookups' = built.lookups
    /\ pc' = "gen"
    /\ UNCHANGED <<fonts, combining_base, show_gaps, show_position_headers, err,
                   merged_codepoints, stdout, wide_blocks, last_idx, lines,
                   last_line, last_printed_block, last_width_mode, cp_arg,
                   is_wide_arg, ret_name>>

\* gen_coverage_file up to the title, and the set-up of gen_coverage_section.
GenCoverageFile ==
    /\ pc = "gen"
    /\ wide_blocks' = calc_wide_blocks(codepoints)
    /\ stdout' = Append(stdout, Tok("title", 0, ""))
    /\ lines' = LinesOf(codepoints)
    /\ last_line' = NoLine
    /\ last_printed_block' = None
    /\ last_width_mode' = None
    /\ pc' = "section"
    /\ UNCHANGED <<fonts, combining_base, show_gaps, show_position_headers, err,
                   merged_codepoints, codepoints, lookups, stderr, last_idx,
                   cp_arg, is_wide_arg, ret_name>>

\* A faulty variant of gap_here: a gap after every emitted line.
gap_after_every_line(last, line) == last # NoLine

\* gap_here of gen_coverage_section: a line was emitted before and this line
\* does not follow it directly.
gap_here(last, line) == last # NoLine /\ line # last + 16

\* One iteration of the loop over the lines in gen_coverage_section.
RenderLine ==
    /\ pc = "section"
    /\ lines # <<>>
    /\ LET line == Head(lines)
           gap == IF show_gaps /\ gap_here(last_line, line)
                  THEN <<Tok("gap", 0, "")>> ELSE <<>>
       IN  \E scan \in {Segments(last_idx, codepoints, line)} :
              /\ last_idx' = scan.last_idx
              /\ IF scan.segments = <<>>
                 THEN /\ stdout' = stdout \o gap
                      /\ lines' = Tail(lines)
                      /\ UNCHANGED <<pc, err, last_line, last_printed_block,
                                     last_width_mode>>
                 ELSE \E w \in {WriteSegments(combining_base,
                                              show_position_headers, codepoints,
                                              wide_blocks, line, scan.segments, 1,
                                              last_printed_block,
                                              last_width_mode, stdout \o gap)} :
                         /\ stdout' = w.out
                         /\ last_printed_block' = w.block
                         /\ last_width_mode' = w.mode
                         /\ IF w.ok
                            THEN /\ last_line' = line
                                 /\ lines' = Tail(lines)
                                 /\ UNCHANGED <<pc, err>>
                            ELSE /\ pc' = "error"
                                 /\ err' = "KeyError"
                                 /\ UNCHANGED <<last_line, lines>>
    /\ UNCHANGED <<fonts, combining_base, show_gaps, show_position_headers,
                   merged_codepoints, codepoints, lookups, stderr, wide_blocks,
                   cp_arg, is_wide_arg, ret_name>>

\* A faulty variant of TrailingHeader: always the narrow literal.
TrailingHeaderNarrow(last_block_wide) == Tok("footer", 0, "narrow")

\* The trailing position header: `if last_block_wide` takes None, returned
\* when no segment was printed, as false.
TrailingHeader(last_block_wide) ==
    Tok("footer", 0, IF last_block_wide = "wide" THEN "wide" ELSE "narrow")

\* The end of gen_coverage_file: the trailing position header.
WriteFooter ==
    /\ pc = "section"
    /\ lines = <<>>
    /\ stdout' = Append(stdout, TrailingHeader(last_width_mode))
    /\ pc' = "done"
    /\ UNCHANGED <<fonts, combining_base, show_gaps, show_position_headers, err,
                   merged_codepoints, codepoints, lookups, stderr, wide_blocks,
                   last_idx, lines, last_line, last_printed_block,
                   last_width_mode, cp_arg, is_wide_arg, ret_name>>

\* The number of renders of one table in one process.
MaxRenders == 2

\* gen_coverage_file is called again in the same process, on the same table
\* with the same options: the output goes on, and the block finder, made
\* once at module level, keeps the index its last call left.
RenderAgain ==
    /\ pc = "done"
    /\ Cardinality({i \in 1..Len(stdout) : stdout[i].k = "title"}) < MaxRenders
    /\ pc' = "gen"
    /\ UNCHANGED <<fonts, combining_base, show_gaps, show_position_headers, err,
                   merged_codepoints, codepoints, lookups, stderr, stdout,
                   wide_blocks, last_idx, lines, last_line, last_printed_block,
                   last_width_mode, cp_arg, is_wide_arg, ret_name>>

\* A direct call of write_codepoint on a table entry, in either width mode.
WriteCodepointCall ==
    /\ pc = "writer"
    /\ \E cp \in DOMAIN codepoints, is_wide \in BOOLEAN :
          LET w == write_codepoint(combining_base, codepoints, is_wide, cp)
          IN  /\ cp_arg' = cp
              /\ is_wide_arg' = is_wide
              /\ stdout' = stdout \o w.out
              /\ pc' = IF w.ok THEN "written" ELSE "error"
              /\ err' = IF w.ok THEN err ELSE "KeyError"
    /\ UNCHANGED <<fonts, combining_base, show_gaps, show_position_headers,
                   merged_codepoints, codepoints, lookups, stderr, wide_blocks,
                   last_idx, lines, last_line, last_printed_block,
                   last_width_mode, ret_name>>

\* A direct call of find_block_name.
FindBlockName ==
    /\ pc = "finder"
    /\ \E cp \in ProbeCps :
          LET found == find_block_name(last_idx, cp)
          IN  /\ cp_arg' = cp
              /\ ret_name' = found.name
              /\ last_idx' = found.last_idx
    /\ UNCHANGED <<fonts, combining_base, show_gaps, show_position_headers, pc,
                   err, merged_codepoints, codepoints, lookups, stderr, stdout,
                   wide_blocks, lines, last_line, last_printed_block,
                   last_width_mode, is_wide_arg>>

-----------------------------------------------------------------------------
(* Inputs and specifications.                                            *)

MaxWeights == 2
MaxGlyphs == 4
MaxWideGlyphs == 4
MaxAdvanceHalfCells == 6

\* What every run starts with, whatever its inputs.
Fresh ==
    /\ err = None
    /\ merged_codepoints = {}
    /\ lookups = {}
    /\ stderr = {}
    /\ stdout = <<>>
    /\ wide_blocks = <<>>
    /\ last_idx = 0
    /\ lines = <<>>
    /\ last_line = NoLine
    /\ last_printed_block = None
    /\ last_width_mode = None
    /\ cp_arg = NoLine
    /\ is_wide_arg = FALSE
    /\ ret_name = None

Hmtx(w) == <<512 * (w + 1), 0, 400 * w>>

Weights(U) ==
    {<<c, g>> \in (SUBSET U) \X (SUBSET U) : g \subseteq c}

Init ==
    /\ \E U \in MergeUniverses, n \in 0..MaxWeights :
          \E p \in [1..n -> Weights(U)] :
              fonts = [w \in 1..n |->
                          [cmap |-> p[w][1], glyf |-> p[w][2], hmtx |-> Hmtx(w)]]
    /\ combining_base \in {9676, 32}
    /\ show_gaps = FALSE
    /\ show_position_headers = FALSE
    /\ codepoints = EmptyTable
    /\ pc = "main"
    /\ Fresh

Next ==
    \/ ExtractAndMerge
    \/ CheckCombiningBase
    \/ BuildTable
    \/ GenCoverageFile
    \/ RenderLine
    \/ WriteFooter

Spec == Init /\ [][Next]_vars

\* Tables with at most n records over the codepoints U, metrics drawn from M.
Tables(U, M, n) ==
    UNION {[D -> M] : D \in {S \in SUBSET U : Cardinality(S) <= n}}

\* A table main can build for which every lookup of the renderer succeeds.
WellFormed(table, base) ==
    /\ \A cp \in DOMAIN table : is_printable(cp)
    /\ (\E cp \in DOMAIN table : is_combining(cp)) => base \in DOMAIN table

RenderMetrics == {<<1024, 0, 800>>, <<2048, 100, 2048>>}

InitRender ==
    /\ fonts = <<>>
    /\ combining_base = 9676
    /\ show_gaps \in BOOLEAN
    /\ show_position_headers \in BOOLEAN
    /\ codepoints \in Tables(RenderUniverse, RenderMetrics, MaxGlyphs)
    /\ WellFormed(codepoints, combining_base)
    /\ pc = "gen"
    /\ Fresh

NextRender ==
    \/ GenCoverageFile
    \/ RenderLine
    \/ WriteFooter

SpecRender == InitRender /\ [][NextRender]_vars

\* A glyph just below the threshold in advance and in extent, one at the
\* threshold by its advance, one at the threshold by its extent.
WideMetrics == {<<1535, -511, 1024>>, <<1536, 0, 800>>, <<1024, -512, 1024>>}

InitWide ==
    /\ fonts = <<>>
    /\ combining_base = 9676
    /\ show_gaps = FALSE
    /\ show_position_headers = FALSE
    /\ codepoints \in Tables(WideUniverse, WideMetrics, MaxWideGlyphs)
    /\ pc = "gen"
    /\ Fresh

SpecWide == InitWide /\ [][NextRender]_vars

LsbValues == {-1200, -1025, -1024, -513, -512, 0, 100}

InitSpacing ==
    /\ fonts = <<>>
    /\ combining_base = 9676
    /\ show_gaps = FALSE
    /\ show_position_headers = FALSE
    /\ \E cp \in SpacingCps, a \in 0..MaxAdvanceHalfCells, lsb \in LsbValues,
          b \in {0, 2, 4} :
          codepoints = (cp :> <<512 * a, lsb, 512 * a + lsb>>)
                           @@ (9676 :> <<512 * b, 0, 512 * b>>)
    /\ pc = "writer"
    /\ Fresh

SpecSpacing == InitSpacing /\ [][WriteCodepointCall]_vars

\* Advances from nothing to three narrow cells in half cells, no bearing.
ColumnMetrics == {<<512 * a, 0, 512 * a>> : a \in 0..MaxAdvanceHalfCells}

InitColumns ==
    /\ fonts = <<>>
    /\ combining_base = 9676
    /\ show_gaps = FALSE
    /\ show_position_headers = FALSE
    /\ codepoints \in Tables(ColumnUniverse, ColumnMetrics, MaxGlyphs)
    /\ pc = "gen"
    /\ Fresh

SpecColumns == InitColumns /\ [][NextRender]_vars

InitRepeat ==
    /\ fonts = <<>>
    /\ combining_base = 9676
    /\ show_gaps \in BOOLEAN
    /\ show_position_headers \in BOOLEAN
    /\ codepoints \in Tables(RepeatUniverse, RenderMetrics, MaxGlyphs)
    /\ pc = "gen"
    /\ Fresh

NextRepeat ==
    \/ GenCoverageFile
    \/ RenderLine
    \/ WriteFooter
    \/ RenderAgain

SpecRepeat == InitRepeat /\ [][NextRepeat]_vars

InitFinder ==
    /\ fonts = <<>>
    /\ combining_base = 9676
    /\ show_gaps = FALSE
    /\ show_position_headers = FALSE
    /\ codepoints = EmptyTable
    /\ pc = "finder"
    /\ Fresh

SpecFinder == InitFinder /\ [][FindBlockName]_vars

-----------------------------------------------------------------------------
(* Properties.                                                           *)

\* The rows of the block table whose range holds cp.
HoldingBlocks(cp) == {idx \in 0..(NumBlocks - 1) : InBlock(idx, cp)}

\* The name a stateless linear scan of the table from index 0 returns.
LinearScanName(cp) ==
    IF HoldingBlocks(cp) = {}
    THEN None
    ELSE LET idx == CHOOSE i \in HoldingBlocks(cp) :
                        \A h \in HoldingBlocks(cp) : i <= h
         IN  UNICODE_BLOCKS[idx + 1][3]

\* C1: every find_block_name call returns the name (or no block) that a
\* stateless linear scan of the block table from index 0 returns for that
\* codepoint, whatever index earlier calls left behind.
C1_FinderMatchesLinearScan ==
    (pc = "finder" /\ cp_arg # NoLine) => ret_name = LinearScanName(cp_arg)

\* C10: the ranges of the block table are sorted by start, each has
\* start <= end, and they are pairwise non-overlapping, so a codepoint the
\* finder is asked about lies in at most one range.
C10_BlockTableDisjoint ==
    /\ \A i \in 1..NumBlocks : UNICODE_BLOCKS[i][1] <= UNICODE_BLOCKS[i][2]
    /\ \A i \in 1..(NumBlocks - 1) : UNICODE_BLOCKS[i][1] <= UNICODE_BLOCKS[i + 1][1]
    /\ \A i, j \in 1..NumBlocks :
          i < j => \/ UNICODE_BLOCKS[i][2] < UNICODE_BLOCKS[j][1]
                   \/ UNICODE_BLOCKS[j][2] < UNICODE_BLOCKS[i][1]
    /\ (pc = "finder" /\ cp_arg # NoLine) => Cardinality(HoldingBlocks(cp_arg)) <= 1

\* The union of the weights' codepoint sets.
UnionOfWeights == UNION {fonts[w].cmap : w \in 1..Len(fonts)}

\* Weight w resolves metrics for cp.
Resolves(w, cp) == cp \in fonts[w].cmap /\ cp \in fonts[w].glyf

\* The Filter: category Cc, Cf or Zs, or inside U+2060..U+206F.
Filtered(cp) == Category(cp) \in {"Cc", "Cf", "Zs"} \/ cp \in 8288..8303

\* The table has been built.
Built == pc \in {"gen", "section", "done"} \/ (pc = "error" /\ err = "KeyError")

\* C2: every codepoint of the merged table has the record of the first
\* weight, in priority order, that resolves metrics for it (so the records
\* lower-priority weights hold for it do not matter).
C2_FirstWeightWins ==
    Built =>
        \A cp \in DOMAIN codepoints :
            \E w \in 1..Len(fonts) :
                /\ Resolves(w, cp)
                /\ \A v \in 1..(w - 1) : ~Resolves(v, cp)
                /\ codepoints[cp] = fonts[w].hmtx

\* A codepoint two weights resolve, with different records, is in the table.
C2_Witness ==
    /\ pc = "gen"
    /\ \E cp \in DOMAIN codepoints :
          /\ Len(fonts) >= 2
          /\ Resolves(1, cp) /\ Resolves(2, cp)
          /\ fonts[1].hmtx # fonts[2].hmtx

\* C3: the keys of the merged table are exactly the codepoints of the union
\* that pass the Filter and that some weight resolves; a filtered codepoint
\* is never looked up; a codepoint no weight resolves is dropped with an
\* advisory; a record from a non-primary weight raises an advisory; and an
\* advisory never ends the run (a run that ended before generation raised
\* none and built no table).
C3_MergedKeySet ==
    /\ Built =>
          /\ DOMAIN codepoints =
                {cp \in UnionOfWeights :
                    ~Filtered(cp) /\ \E w \in 1..Len(fonts) : Resolves(w, cp)}
          /\ \A l \in lookups : ~Filtered(l[2])
          /\ \A cp \in UnionOfWeights :
                (~Filtered(cp) /\ \A w \in 1..Len(fonts) : ~Resolves(w, cp))
                    => \E a \in stderr : a.k = "no_metrics" /\ a.cp = cp
          /\ \A cp \in DOMAIN codepoints :
                ~Resolves(1, cp) => \E a \in stderr : a.k = "found_in" /\ a.cp = cp
    /\ (pc = "error" /\ err # "KeyError") =>
          /\ codepoints = EmptyTable
          /\ \A a \in stderr : a.k \notin {"found_in", "no_metrics"}

\* A finished run whose union held a filtered codepoint, a codepoint no
\* weight resolved and a codepoint only a non-primary weight resolved.
C3_Witness ==
    /\ pc = "done"
    /\ \E cp \in UnionOfWeights : Filtered(cp)
    /\ \E a \in stderr : a.k = "no_metrics"
    /\ \E a \in stderr : a.k = "found_in"

\* C4: if the weight list is empty, or the combining base is not in the
\* union of the weights' codepoint sets, the run never gets past the
\* precondition checks, ends with an error, and nothing has been written
\* to standard output.
C4_PreconditionFailure ==
    (Len(fonts) = 0 \/ combining_base \notin UnionOfWeights) =>
        /\ stdout = <<>>
        /\ pc \in {"main", "check", "error"}
        /\ pc = "error" => err \in {"StopIteration", "SystemExit"}

\* A run with weights that ended because the combining base is missing.
C4_Witness ==
    /\ pc = "error"
    /\ err = "SystemExit"
    /\ Len(fonts) > 0
    /\ combining_base \notin UnionOfWeights

\* C5: once the preconditions have passed, generation never aborts: the
\* only errors a run ends with are the two precondition failures.
C5_GenerationNeverAborts ==
    pc = "error" => err \in {"StopIteration", "SystemExit"}

\* C6: a block range is in calc_wide_blocks' result exactly when strictly
\* more than 2 table codepoints inside it, not counting U+1F96..U+1F97 and
\* U+100104..U+100107, have max(advance, x_max - left_side_bearing) >= 1536.
C6_WideBlocks ==
    pc \in {"section", "done"} =>
        \A i \in 1..NumBlocks :
            LET start == UNICODE_BLOCKS[i][1]
                end == UNICODE_BLOCKS[i][2]
                counted == {cp \in DOMAIN codepoints :
                               /\ start <= cp /\ cp <= end
                               /\ cp \notin 8086..8087
                               /\ cp \notin 1048836..1048839
                               /\ \/ codepoints[cp][1] >= 1536
                                  \/ codepoints[cp][3] - codepoints[cp][2] >= 1536}
            IN  (\E j \in 1..Len(wide_blocks) : wide_blocks[j] = <<start, end>>)
                    <=> Cardinality(counted) > 2

\* Greek Extended was found wide on a table holding exactly three of its
\* codepoints.
C6_Witness ==
    /\ pc = "section"
    /\ \E j \in 1..Len(wide_blocks) : wide_blocks[j] = <<7936, 8191>>
    /\ Cardinality({cp \in DOMAIN codepoints : 7936 <= cp /\ cp <= 8191}) = 3

\* The spaces written before the character by the last write_codepoint call.
LeadingSpaces ==
    IF \E i \in 1..Len(stdout) : stdout[i].k = "prefix"
    THEN stdout[CHOOSE i \in 1..Len(stdout) : stdout[i].k = "prefix"].n
    ELSE 0

\* The spaces written after the character by the last write_codepoint call.
TrailingSpaces ==
    stdout[CHOOSE i \in 1..Len(stdout) : stdout[i].k = "suffix"].n

\* ceil(n / 1024) for n >= 0: the least k with 1024 * k >= n.
Cells(n) == CHOOSE k \in 0..(n + 1) : 1024 * k >= n /\ 1024 * (k - 1) < n

\* ceil(-lsb / 1024) when lsb < -512, else 0.
PrefixFormula(lsb) == IF lsb < -512 THEN Cells(-lsb) ELSE 0

\* C7 as stated: every written codepoint other than U+1F96 and U+1F97 gets
\* ceil(-lsb / 1024) leading spaces when lsb < -512 and none otherwise;
\* U+1F96 and U+1F97 get none.
C7_PrefixEveryCodepoint ==
    pc = "written" =>
        LeadingSpaces = IF cp_arg \in {8086, 8087}
                        THEN 0
                        ELSE PrefixFormula(codepoints[cp_arg][2])

\* C7, amended: a written codepoint that is neither a combining mark
\* (category Mn, Mc, Me) nor U+1F96 or U+1F97 gets ceil(-lsb / 1024) leading
\* spaces when lsb < -512 and none otherwise; combining marks, U+1F96 and
\* U+1F97 get none, whatever their bearing.
C7_PrefixNonCombining ==
    pc = "written" =>
        /\ LeadingSpaces = IF \/ cp_arg \in {8086, 8087}
                              \/ Category(cp_arg) \in {"Mn", "Mc", "Me"}
                           THEN 0
                           ELSE PrefixFormula(codepoints[cp_arg][2])
        /\ (cp_arg = 65 /\ codepoints[65][2] = -512) => LeadingSpaces = 0
        /\ (cp_arg = 65 /\ codepoints[65][2] = -1200) => LeadingSpaces = 2

\* U+0041 with lsb = -1200 was written after 2 leading spaces.
C7_Witness ==
    /\ pc = "written"
    /\ cp_arg = 65
    /\ codepoints[65][2] = -1200
    /\ LeadingSpaces = 2

\* C8: the trailing spaces written for a codepoint are
\* max(0, ceil(max(0, expected_width - effective_advance) / 1024) - prefix),
\* expected_width being 2048 wide and 1024 narrow, effective_advance the
\* larger of the own and the combining base's advance for a combining mark
\* and the own advance otherwise, prefix the leading spaces written.
C8_SuffixSpaces ==
    pc = "written" =>
        LET own == codepoints[cp_arg][1]
            base == codepoints[combining_base][1]
            effective == IF Category(cp_arg) \in {"Mn", "Mc", "Me"} /\ base > own
                         THEN base
                         ELSE own
            expected == IF is_wide_arg THEN 2048 ELSE 1024
            shortfall == IF expected > effective THEN expected - effective ELSE 0
            wanted == Cells(shortfall) - LeadingSpaces
        IN  /\ TrailingSpaces = IF wanted > 0 THEN wanted ELSE 0
            /\ TrailingSpaces >= 0
            /\ (cp_arg = 65 /\ ~is_wide_arg /\ own = 1024
                    /\ codepoints[65][2] = 0)
                   => (LeadingSpaces = 0 /\ TrailingSpaces = 0)
            /\ (cp_arg = 65 /\ is_wide_arg /\ own = 2048
                    /\ codepoints[65][2] = 100)
                   => (LeadingSpaces = 0 /\ TrailingSpaces = 0)

\* U+0041 with advance 1024 and lsb = -1200, narrow: 2 leading spaces, and
\* the difference 0 - 2 is written as no trailing space.
C8_Witness ==
    /\ pc = "written"
    /\ cp_arg = 65
    /\ ~is_wide_arg
    /\ codepoints[65][1] = 1024
    /\ codepoints[65][2] = -1200
    /\ LeadingSpaces = 2
    /\ TrailingSpaces = 0

\* C9: after a finished render, every codepoint of the table that lies in
\* no block range has its character in the output, on the row of its line.
C9_UnclassifiedRendered ==
    pc = "done" =>
        \A cp \in DOMAIN codepoints :
            HoldingBlocks(cp) = {} =>
                \E i \in 1..Len(stdout) :
                    /\ stdout[i].k = "char" /\ stdout[i].n = cp
                    /\ \E l \in 1..(i - 1) :
                          /\ stdout[l].k = "label"
                          /\ stdout[l].n = (cp \div 16) * 16
                          /\ \A m \in (l + 1)..(i - 1) : stdout[m].k # "label"

\* The line the loop of gen_coverage_section visits next keeps no segment.
SkipsLine ==
    /\ pc = "section"
    /\ lines # <<>>
    /\ Segments(last_idx, codepoints, Head(lines)).segments = <<>>

\* C11: the iteration for a line that keeps no segment writes nothing, with
\* gap display on or off, and leaves the last emitted line address, the
\* last printed block name and the last printed width mode as they were.
C11_SkippedLineLeavesNoTrace ==
    [][SkipsLine =>
          /\ stdout' = stdout
          /\ last_line' = last_line
          /\ last_printed_block' = last_printed_block
          /\ last_width_mode' = last_width_mode]_vars

\* The rows of the output, by the position of their address label.
Labels == {i \in 1..Len(stdout) : stdout[i].k = "label"}

\* The label of the row printed before the row at l, 0 if there is none.
PrevLabel(l) ==
    IF \E j \in Labels : j < l
    THEN CHOOSE j \in Labels : j < l /\ \A m \in Labels : m < l => m <= j
    ELSE 0

\* The first character written on the row at l (a kept segment has one).
FirstChar(l) ==
    CHOOSE i \in (l + 1)..Len(stdout) :
        /\ stdout[i].k = "char"
        /\ \A j \in (l + 1)..(i - 1) : stdout[j].k # "char"

\* The width mode of the row at l, read off the table: the block of its
\* characters is one of the wide blocks.
RowMode(l) ==
    IF \E j \in 1..Len(wide_blocks) :
           /\ wide_blocks[j][1] <= stdout[FirstChar(l)].n
           /\ stdout[FirstChar(l)].n <= wide_blocks[j][2]
    THEN "wide"
    ELSE "narrow"

\* Where the position header of the row at l stands if it has one: right
\* before the row's block header, or right before the label.
HeadPos(l) == IF stdout[l - 1].k = "block_header" THEN l - 2 ELSE l - 1

\* The last token of kind k above position i, 0 if there is none.
LastBefore(k, i) ==
    IF \E j \in 1..(i - 1) : stdout[j].k = k
    THEN CHOOSE j \in 1..(i - 1) :
             /\ stdout[j].k = k
             /\ \A m \in (j + 1)..(i - 1) : stdout[m].k # k
    ELSE 0

\* C12: in a finished render with position headers on, a row has a position
\* header right before it exactly when its width mode differs from the mode
\* of the row printed before it (the first row always has one), and the
\* header is the wide one iff the row is wide; no other position header is
\* written, so with the option off there is none; with the option on, the
\* last position header above every row is the one of the row's mode.
C12_PositionHeaders ==
    pc = "done" =>
        /\ \A l \in Labels :
              /\ stdout[HeadPos(l)].k = "position_header"
                     <=> /\ show_position_headers
                         /\ \/ PrevLabel(l) = 0
                            \/ RowMode(PrevLabel(l)) # RowMode(l)
              /\ stdout[HeadPos(l)].k = "position_header"
                     => stdout[HeadPos(l)].s = RowMode(l)
              /\ show_position_headers
                     => /\ LastBefore("position_header", l) # 0
                        /\ stdout[LastBefore("position_header", l)].s = RowMode(l)
        /\ \A i \in 1..Len(stdout) :
              stdout[i].k = "position_header" => \E l \in Labels : HeadPos(l) = i

\* A finished render with position headers on in which a wide row was
\* followed by a narrow one: a wide header, later a narrow header.
C12_Witness ==
    /\ pc = "done"
    /\ show_position_headers
    /\ \E i, j \in 1..Len(stdout) :
          /\ i < j
          /\ stdout[i].k = "position_header" /\ stdout[i].s = "wide"
          /\ stdout[j].k = "position_header" /\ stdout[j].s = "narrow"

\* The block name of every codepoint a rendered table can hold, by the
\* stateless linear scan.
ScanNames == [cp \in RenderUniverse |-> LinearScanName(cp)] @@ <<>>

\* The block of the row at l, read off the block table: the block of its
\* first character.
RowBlock(l) == ScanNames[stdout[FirstChar(l)].n]

\* C13: in a finished render a row has a block header right above its label
\* exactly when the row's block name is not the name on the last block
\* header printed before (or none was printed), and that header carries the
\* row's block name; no other block header is written; no two consecutive
\* block headers carry the same name; the last block header above every row
\* names its block.
C13_BlockHeaders ==
    pc = "done" =>
        /\ \A l \in Labels :
              /\ stdout[l - 1].k = "block_header"
                     <=> \/ LastBefore("block_header", l - 1) = 0
                         \/ stdout[LastBefore("block_header", l - 1)].s
                                # RowBlock(l)
              /\ LastBefore("block_header", l) # 0
              /\ stdout[LastBefore("block_header", l)].s = RowBlock(l)
        /\ \A i \in 1..Len(stdout) :
              stdout[i].k = "block_header"
                  => /\ stdout[i + 1].k = "label"
                     /\ LastBefore("block_header", i) # 0
                            => stdout[LastBefore("block_header", i)].s
                                   # stdout[i].s

\* A finished render in which one line was split into two rows, each under
\* its own block header, and a row of another line followed the row above
\* it under the same header.
C13_Witness ==
    /\ pc = "done"
    /\ \E l, m \in Labels :
          /\ l < m
          /\ stdout[l].n = stdout[m].n
          /\ stdout[l - 1].k = "block_header"
          /\ stdout[m - 1].k = "block_header"
    /\ \E l \in Labels :
          /\ PrevLabel(l) # 0
          /\ stdout[l - 1].k # "block_header"
          /\ stdout[PrevLabel(l)].n # stdout[l].n

\* The number of blank separator lines in an output.
GapCount(out) == Cardinality({i \in 1..Len(out) : out[i].k = "gap"})

\* The address of the last line that produced a row, NoLine if none did.
LastEmitted ==
    IF Labels = {}
    THEN NoLine
    ELSE stdout[LastBefore("label", Len(stdout) + 1)].n

Footers == {i \in 1..Len(stdout) : stdout[i].k = "footer"}

\* C15: no trailing position header is written before the last line is
\* done; a finished render ends with exactly one, position headers on or
\* off: the wide one iff a row was printed and the last row is wide, the
\* narrow one if the last row is narrow or no row was printed.
C15_TrailingHeader ==
    /\ pc # "done" => Footers = {}
    /\ pc = "done" =>
          /\ Footers = {Len(stdout)}
          /\ stdout[Len(stdout)].s =
                 IF Labels # {}
                 THEN RowMode(LastBefore("label", Len(stdout)))
                 ELSE "narrow"

\* A finished render without position headers whose first row was wide and
\* whose last row, and so its trailing header, was narrow.
C15_Witness ==
    /\ pc = "done"
    /\ ~show_position_headers
    /\ \E l \in Labels : RowMode(l) = "wide"
    /\ stdout[Len(stdout)].k = "footer"
    /\ stdout[Len(stdout)].s = "narrow"

\* The newline that ends the row at l.
RowEnd(l) ==
    CHOOSE i \in (l + 1)..Len(stdout) :
        /\ stdout[i].k = "newline"
        /\ \A j \in (l + 1)..(i - 1) : stdout[j].k # "newline"

\* The offset of the column written at position i of the row at l: the
\* segment's first offset, read off the padding after the label, plus the
\* number of columns written before i.
ColumnOffset(l, i) ==
    stdout[l + 1].n \div (IF RowMode(l) = "wide" THEN 3 ELSE 2)
        + Cardinality({j \in (l + 2)..(i - 1) :
                          stdout[j].k \in {"char", "missing"}})

\* The separator width the claim gives for a supported column.
SeparatorFormula(advance, expected_width) ==
    LET overhang == IF advance > expected_width
                    THEN advance - expected_width ELSE 0
        remaining == IF overhang < 1024 THEN 1024 - overhang ELSE 0
    IN  (remaining + 1023) \div 1024

\* C16: in every row, the write after a column at offsets 0..14 is a
\* separator and the write after the column at offset 15 is the newline; a
\* column the table lacks is a placeholder of 1 space (narrow) or 2 (wide)
\* and its separator is 1 space; the separator after a supported column is
\* ceil(max(0, 1024 - max(0, advance - expected_width)) / 1024) spaces with
\* expected_width 2048 for a wide row and 1024 for a narrow one, which is 0
\* or 1 and is 0 exactly when advance >= expected_width + 1024; no other
\* separator is written.
C16_ColumnSeparators ==
    /\ \A l \in Labels :
          \A i \in (l + 2)..RowEnd(l) :
              LET expected_width == IF RowMode(l) = "wide" THEN 2048 ELSE 1024
                  advance == codepoints[stdout[i].n][1]
              IN  /\ stdout[i].k = "char" =>
                        /\ ColumnOffset(l, i) = stdout[i].n - stdout[l].n
                        /\ stdout[i + 1].k = "suffix"
                        /\ IF ColumnOffset(l, i) < 15
                           THEN /\ stdout[i + 2].k = "colsep"
                                /\ stdout[i + 2].n =
                                       SeparatorFormula(advance, expected_width)
                                /\ stdout[i + 2].n \in {0, 1}
                                /\ stdout[i + 2].n = 0
                                       <=> advance >= expected_width + 1024
                           ELSE stdout[i + 2].k = "newline"
                  /\ stdout[i].k = "missing" =>
                        /\ stdout[i].n = IF RowMode(l) = "wide" THEN 2 ELSE 1
                        /\ IF ColumnOffset(l, i) < 15
                           THEN /\ stdout[i + 1].k = "colsep"
                                /\ stdout[i + 1].n = 1
                           ELSE stdout[i + 1].k = "newline"
    /\ \A i \in 1..Len(stdout) :
          stdout[i].k = "colsep" => stdout[i - 1].k \in {"suffix", "missing"}

\* A finished render of a wide row in which a glyph three narrow cells wide
\* was followed by no separator space, and in which the supported column at
\* offset 15 (U+004F) was followed by the newline.
C16_Witness ==
    /\ pc = "done"
    /\ \E l \in Labels :
          /\ RowMode(l) = "wide"
          /\ \E i \in (l + 2)..RowEnd(l) :
                /\ stdout[i].k = "char"
                /\ codepoints[stdout[i].n][1] = 3072
                /\ stdout[i + 2].k = "colsep"
                /\ stdout[i + 2].n = 0
          /\ \E i \in (l + 2)..RowEnd(l) :
                /\ stdout[i].k = "char"
                /\ stdout[i].n = 79
                /\ stdout[i + 2].k = "newline"

\* The title writes of the output: one per render.
Titles == {i \in 1..Len(stdout) : stdout[i].k = "title"}

\* The output of the render whose title is at t: up to the next title or
\* the end of the output.
RenderOutput(t) ==
    SubSeq(stdout, t,
           IF \E u \in Titles : u > t
           THEN (CHOOSE u \in Titles :
                     u > t /\ \A v \in Titles : v > t => u <= v) - 1
           ELSE Len(stdout))

\* C17: whenever a render of a table has finished, the output of every
\* render of it in this process, all under the same options, equals the
\* output of the first one, whatever index the earlier renders left in the
\* block finder.
C17_RenderDeterminism ==
    pc = "done" => \A t \in Titles : RenderOutput(t) = RenderOutput(1)

====
